---- MODULE Spec2Model ----
(***************************************************************************)
(* Model of the streaming ETL scripts under src/src/scripts:               *)
(*   merge_rais_cnaes.py            load_cnaes_unicos, stream_merge        *)
(*   compute_empregabilidade.py     aggregate_empregos, calc_empregabilidade, main *)
(*   compute_salario_medio_setor.py parse_decimal, aggregate_median        *)
(*   normalize_salario_demanda.py   parse_decimal, normalize, process      *)
(*                                                                         *)
(* Text is a sequence of one-character strings, so that strip, lower,      *)
(* replace and float() are computed character by character.  Accented      *)
(* letters are written with a trailing quote ("a'" is a-acute).  Numbers   *)
(* are exact rationals <<n, d>> in lowest terms, d > 0: the model does not *)
(* follow binary floating-point rounding.  Progress logging                *)
(* (report_every) changes no program state and is left out.                *)
(***************************************************************************)
EXTENDS Integers, Sequences, FiniteSets, TLC

VARIABLES
    pc,             \* position of the running stage
    stage,          \* which script runs: "merge", "load", "emp", "median", "norm", "calc", "parse"
    fieldnames,     \* header of the primary input file (csv.DictReader.fieldnames)
    rows,           \* data rows of the primary input file, each a sequence of fields
    badAt,          \* 0: the file is valid UTF-8; n > 0: data row n holds an undecodable byte
    enc,            \* encoding of the open input handle
    processed,      \* rows read by the current loop
    cols,           \* the columns an aggregator or the normalizer resolved from the header
    out,            \* rows written to the output file, in order
    \* stream_merge
    cnaes_map, chosen, written,
    \* compute_empregabilidade
    taxas_json, taxas, counts, count_keys, results, missing_taxas, warnings, todo,
    \* compute_salario_medio_setor
    include_zeros, bins, bin_keys, medians,
    \* normalize_salario_demanda
    min_dem_by_sector, max_dem_by_sector, min_sal_by_sector, max_sal_by_sector,
    \* calc_empregabilidade applied to drawn inputs
    empregados, taxa, empreg,
    \* parse_decimal (both versions) applied to a drawn input
    input_value, parsed

ioVars    == <<stage, fieldnames, rows, badAt, enc, processed, cols, out>>
mergeVars == <<cnaes_map, chosen, written>>
empVars   == <<taxas_json, taxas, counts, count_keys, results, missing_taxas, warnings, todo>>
medVars   == <<include_zeros, bins, bin_keys, medians>>
normVars  == <<min_dem_by_sector, max_dem_by_sector, min_sal_by_sector, max_sal_by_sector>>
calcVars  == <<empregados, taxa, empreg>>
parseVars == <<input_value, parsed>>
vars      == <<pc, ioVars, mergeVars, empVars, medVars, normVars, calcVars, parseVars>>

\* ------------------------------------------------------------------ bounds
\* Longest input file, in data rows.
MaxRows == 3
\* Largest of the consecutive employment counts calc_empregabilidade is applied to.
MaxE == 5
\* Longest text drawn as an argument of parse_decimal.
MaxLen == 3

\* ------------------------------------------------------------------ text
\* Python's None, and the exceptions an expression can raise instead of a value.
None == <<"None">>
AttributeError == <<"AttributeError">>
ValueError == <<"ValueError">>
ZeroDivisionError == <<"ZeroDivisionError">>

Range(s) == {s[i] : i \in DOMAIN s}

EmptyMap == [k \in {} |-> None]

\* dict.get(k, default)
MapGet(m, k, default) == IF k \in DOMAIN m THEN m[k] ELSE default

\* m[k] = v
MapPut(m, k, v) == [x \in DOMAIN m \cup {k} |-> IF x = k THEN v ELSE m[x]]

IsSpace(c) == c = " "

RECURSIVE LStrip(_)
LStrip(s) == IF s # <<>> /\ IsSpace(Head(s)) THEN LStrip(Tail(s)) ELSE s

RECURSIVE RStrip(_)
RStrip(s) ==
    IF s # <<>> /\ IsSpace(s[Len(s)]) THEN RStrip(SubSeq(s, 1, Len(s) - 1)) ELSE s

\* str.strip()
Strip(s) == RStrip(LStrip(s))

UpperChars == <<"A", "B", "C", "D", "E", "F", "G", "H", "I", "J", "K", "L", "M",
                "N", "O", "P", "Q", "R", "S", "T", "U", "V", "W", "X", "Y", "Z",
                "A'", "E'", "U'">>
LowerChars == <<"a", "b", "c", "d", "e", "f", "g", "h", "i", "j", "k", "l", "m",
                "n", "o", "p", "q", "r", "s", "t", "u", "v", "w", "x", "y", "z",
                "a'", "e'", "u'">>

LowerOf ==
    [c \in Range(UpperChars) |-> LowerChars[CHOOSE i \in DOMAIN UpperChars : UpperChars[i] = c]]

LowerChar(c) == IF c \in DOMAIN LowerOf THEN LowerOf[c] ELSE c

\* str.lower()
Lower(s) == [i \in DOMAIN s |-> LowerChar(s[i])]

\* str.replace(old, new) for a one-character old and a new of length 0 or 1
RECURSIVE Replace(_, _, _)
Replace(s, old, new) ==
    IF s = <<>> THEN <<>>
    ELSE (IF Head(s) = old THEN new ELSE <<Head(s)>>) \o Replace(Tail(s), old, new)

\* ------------------------------------------------------------------ csv
\* normalize_header: strip, then lower
normalize_header(h) == Lower(Strip(h))

\* The entry norm_map keeps for a normalized name: the last header with that name.
NormMapGet(names, n) ==
    LET hits == {i \in DOMAIN names : normalize_header(names[i]) = n}
    IN  IF hits = {} THEN None
        ELSE names[CHOOSE i \in hits : \A j \in hits : j <= i]

\* choose_column that guesses: the first name of the header when no candidate
\* matches.
choose_column_guess(names, candidates) ==
    LET hits == {i \in DOMAIN candidates :
                    NormMapGet(names, normalize_header(candidates[i])) \notin {None, <<>>}}
    IN  IF hits = {} THEN names[1]
        ELSE NormMapGet(names, normalize_header(candidates[CHOOSE i \in hits : \A j \in hits : i <= j]))

\* choose_column: the real header of the first candidate that norm_map holds with a
\* non-empty real name; None when no candidate matches.
RECURSIVE choose_column(_, _)
choose_column(names, candidates) ==
    IF candidates = <<>> THEN None
    ELSE LET real == NormMapGet(names, normalize_header(Head(candidates)))
         IN  IF real # None /\ real # <<>> THEN real
             ELSE choose_column(names, Tail(candidates))

\* One row as csv.DictReader yields it: the last header of a name gives its value,
\* a header beyond the row's end maps to None (restval), and the fields beyond the
\* header are kept as a list under the key None (restkey).
RowDict(names, row) ==
    LET keys == Range(names) \cup (IF Len(row) > Len(names) THEN {None} ELSE {})
    IN  [k \in keys |->
            IF k \notin Range(names) THEN SubSeq(row, Len(names) + 1, Len(row))
            ELSE LET i == CHOOSE i \in DOMAIN names :
                              names[i] = k /\ \A j \in DOMAIN names : names[j] = k => j <= i
                 IN  IF i <= Len(row) THEN row[i] ELSE None]

\* csv.DictWriter.writerow with extrasaction = "raise": the row as a list in the
\* order of the writer's fieldnames, None written as the empty string; a key that
\* is not a fieldname raises ValueError.
DictWriterRow(names, d) ==
    IF \E k \in DOMAIN d : k \notin Range(names) THEN ValueError
    ELSE [i \in DOMAIN names |->
            LET v == MapGet(d, names[i], <<>>) IN IF v = None THEN <<>> ELSE v]

\* The value a written row holds under a column name.
Field(names, line, name) ==
    line[CHOOSE i \in DOMAIN names : names[i] = name]

\* All files of at most n data rows drawn from a set of rows.
RECURSIVE Files(_, _)
Files(rowSet, n) ==
    IF n = 0 THEN {<<>>}
    ELSE LET shorter == Files(rowSet, n - 1)
         IN  shorter \cup {Append(f, r) : f \in {g \in shorter : Len(g) = n - 1}, r \in rowSet}

\* ------------------------------------------------------------------ numbers
Abs(n) == IF n < 0 THEN -n ELSE n

RECURSIVE Gcd(_, _)
Gcd(a, b) == IF b = 0 THEN a ELSE Gcd(b, a % b)

\* The rational n/d (d # 0) in lowest terms with a positive denominator.
Rat(n, d) ==
    LET g == Gcd(Abs(n), Abs(d))
        s == IF d < 0 THEN -1 ELSE 1
    IN  <<(s * n) \div g, (s * d) \div g>>

Zero == <<0, 1>>
FromInt(n) == <<n, 1>>

RAdd(a, b) == Rat(a[1] * b[2] + b[1] * a[2], a[2] * b[2])
RSub(a, b) == Rat(a[1] * b[2] - b[1] * a[2], a[2] * b[2])
RMul(a, b) == Rat(a[1] * b[1], a[2] * b[2])
\* a / b; Python raises ZeroDivisionError for b = 0.
RDiv(a, b) == IF b[1] = 0 THEN ZeroDivisionError ELSE Rat(a[1] * b[2], a[2] * b[1])
RLt(a, b) == a[1] * b[2] < b[1] * a[2]

RECURSIVE Pow10(_)
Pow10(k) == IF k = 0 THEN 1 ELSE 10 * Pow10(k - 1)

Digits == <<"0", "1", "2", "3", "4", "5", "6", "7", "8", "9">>
DigitVal(c) == (CHOOSE i \in DOMAIN Digits : Digits[i] = c) - 1

RECURSIVE DigitsToInt(_)
DigitsToInt(s) ==
    IF s = <<>> THEN 0 ELSE 10 * DigitsToInt(SubSeq(s, 1, Len(s) - 1)) + DigitVal(s[Len(s)])

\* float(s) for text over digits, sign, ".", ",", quote, space and letters other
\* than those of an exponent, "inf" or "nan": surrounding whitespace is ignored,
\* then an optional sign and digits with at most one "." and at least one digit;
\* anything else raises ValueError.
ParseFloat(s) ==
    LET t == Strip(s)
        signed == t # <<>> /\ Head(t) \in {"-", "+"}
        body == IF signed THEN Tail(t) ELSE t
        dots == {i \in DOMAIN body : body[i] = "."}
        digs == SelectSeq(body, LAMBDA c : c \in Range(Digits))
        ok == /\ \A i \in DOMAIN body : body[i] \in Range(Digits) \cup {"."}
              /\ Cardinality(dots) <= 1
              /\ digs # <<>>
        frac == IF dots = {} THEN 0 ELSE Len(body) - (CHOOSE i \in dots : TRUE)
        mag == DigitsToInt(digs)
    IN  IF ~ok THEN ValueError
        ELSE Rat(IF signed /\ Head(t) = "-" THEN -mag ELSE mag, Pow10(frac))

\* ------------------------------------------------------------------ deterministic writer
\* The characters of the model in code point order (str comparison in sorted()).
CodePoints ==
    <<" ", "\"", "+", ",", "-", ".", "0", "1", "2", "3", "4", "5", "6", "7", "8", "9",
      "A", "B", "C", "D", "E", "F", "G", "H", "I", "J", "K", "L", "M",
      "N", "O", "P", "Q", "R", "S", "T", "U", "V", "W", "X", "Y", "Z", "_",
      "a", "b", "c", "d", "e", "f", "g", "h", "i", "j", "k", "l", "m",
      "n", "o", "p", "q", "r", "s", "t", "u", "v", "w", "x", "y", "z",
      "A'", "E'", "U'", "a'", "e'", "u'">>

CharCode(c) == CHOOSE i \in DOMAIN CodePoints : CodePoints[i] = c

\* a < b as Python compares str: by code point, a proper prefix first.
RECURSIVE StrLt(_, _)
StrLt(a, b) ==
    IF b = <<>> THEN FALSE
    ELSE IF a = <<>> THEN TRUE
    ELSE IF Head(a) = Head(b) THEN StrLt(Tail(a), Tail(b))
    ELSE CharCode(Head(a)) < CharCode(Head(b))

\* The sort key (ano, setor) of write_output.
KeyLt(k1, k2) == StrLt(k1[1], k2[1]) \/ (k1[1] = k2[1] /\ StrLt(k1[2], k2[2]))

\* The keys in descending order: the sort reversed.
RECURSIVE SortedKeys_descending(_)
SortedKeys_descending(S) ==
    IF S = {} THEN <<>>
    ELSE LET m == CHOOSE k \in S : \A o \in S \ {k} : KeyLt(o, k)
         IN  <<m>> \o SortedKeys_descending(S \ {m})

\* sorted(results.items(), key = (ano, setor)): the keys in ascending order.
RECURSIVE SortedKeys(_)
SortedKeys(S) ==
    IF S = {} THEN <<>>
    ELSE LET m == CHOOSE k \in S : \A o \in S \ {k} : KeyLt(k, o)
         IN  <<m>> \o SortedKeys(S \ {m})

RECURSIVE IntToStr(_)
IntToStr(n) == IF n < 10 THEN <<Digits[n + 1]>> ELSE Append(IntToStr(n \div 10), Digits[(n % 10) + 1])

RECURSIVE ZeroPad(_, _)
ZeroPad(s, width) == IF Len(s) >= width THEN s ELSE ZeroPad(<<"0">> \o s, width)

\* f"{q:.6f}": q rounded to six decimals (ties to even), sign, integer part, ".",
\* six digits.
Fmt6(q) ==
    LET a == Abs(q[1])
        ip == a \div q[2]
        scaled == (a % q[2]) * 1000000
        f == scaled \div q[2]
        rest == scaled % q[2]
        up == 2 * rest > q[2] \/ (2 * rest = q[2] /\ f % 2 = 1)
        total == ip * 1000000 + f + (IF up THEN 1 ELSE 0)
    IN  (IF q[1] < 0 THEN <<"-">> ELSE <<>>)
        \o IntToStr(total \div 1000000) \o <<".">> \o ZeroPad(IntToStr(total % 1000000), 6)

\* ------------------------------------------------------------------ stage defaults
\* The variables of the stages that are not running keep these values.
MergeIdle == cnaes_map = EmptyMap /\ chosen = EmptyMap /\ written = 0
EmpIdle ==
    /\ taxas_json = EmptyMap /\ taxas = EmptyMap /\ counts = EmptyMap /\ count_keys = <<>>
    /\ results = EmptyMap /\ missing_taxas = {} /\ warnings = <<>> /\ todo = <<>>
MedIdle == include_zeros = FALSE /\ bins = EmptyMap /\ bin_keys = <<>> /\ medians = EmptyMap
NormIdle ==
    /\ min_dem_by_sector = EmptyMap /\ max_dem_by_sector = EmptyMap
    /\ min_sal_by_sector = EmptyMap /\ max_sal_by_sector = EmptyMap
CalcIdle == empregados = None /\ taxa = None /\ empreg = None
ParseIdle == input_value = None /\ parsed = <<>>

\* ------------------------------------------------------------------ merge_rais_cnaes.py
\* col_candidates of stream_merge, in the order the code resolves them.
MergeKeys ==
    <<"ano", "id_cnae", "cnae", "massa_salarial", "salario_medio", "num_empregos",
      "ganho_oportunidade">>

col_candidates ==
    [key \in Range(MergeKeys) |->
        CASE key = "ano" ->
               <<<<"A", "n", "o">>, <<"a", "n", "o">>, <<"A", "N", "o">>, <<"A", "N", "O">>>>
          [] key = "id_cnae" ->
               <<<<"I", "D", " ", "C", "N", "A", "E">>,
                 <<"i", "d", "_", "c", "n", "a", "e">>,
                 <<"i", "d", " ", "c", "n", "a", "e">>,
                 <<"i", "d", "c", "n", "a", "e">>>>
          [] key = "cnae" ->
               <<<<"C", "N", "A", "E">>, <<"c", "n", "a", "e">>>>
          [] key = "massa_salarial" ->
               <<<<"M", "a", "s", "s", "a", " ", "S", "a", "l", "a", "r", "i", "a", "l">>,
                 <<"m", "a", "s", "s", "a", "_", "s", "a", "l", "a", "r", "i", "a", "l">>,
                 <<"m", "a", "s", "s", "a", " ", "s", "a", "l", "a", "r", "i", "a", "l">>>>
          [] key = "salario_medio" ->
               <<<<"S", "a", "l", "a'", "r", "i", "o", " ", "M", "e'", "d", "i", "o">>,
                 <<"S", "a", "l", "a", "r", "i", "o", " ", "M", "e", "d", "i", "o">>,
                 <<"s", "a", "l", "a", "r", "i", "o", " ", "m", "e", "d", "i", "o">>,
                 <<"s", "a", "l", "a", "r", "i", "o", "_", "m", "e", "d", "i", "o">>>>
          [] key = "num_empregos" ->
               <<<<"N", "u'", "m", "e", "r", "o", " ", "d", "e", " ", "e", "m", "p", "r", "e", "g", "o", "s">>,
                 <<"N", "u", "m", "e", "r", "o", " ", "d", "e", " ", "e", "m", "p", "r", "e", "g", "o", "s">>,
                 <<"n", "u", "m", "e", "r", "o", " ", "d", "e", " ", "e", "m", "p", "r", "e", "g", "o", "s">>,
                 <<"n", "u", "m", "e", "r", "o", "_", "d", "e", "_", "e", "m", "p", "r", "e", "g", "o", "s">>,
                 <<"n", "u", "m", "e", "r", "o", "_", "d", "e", "_", "e", "m", "p", "r", "e", "g", "o", "s">>>>
          [] key = "ganho_oportunidade" ->
               <<<<"G", "a", "n", "h", "o", " ", "d", "e", " ", "O", "p", "o", "r", "t", "u", "n", "i", "d", "a", "d", "e">>,
                 <<"G", "a", "n", "h", "o", " ", "d", "e", " ", "o", "p", "o", "r", "t", "u", "n", "i", "d", "a", "d", "e">>,
                 <<"g", "a", "n", "h", "o", " ", "o", "p", "o", "r", "t", "u", "n", "i", "d", "a", "d", "e">>,
                 <<"g", "a", "n", "h", "o", "_", "o", "p", "o", "r", "t", "u", "n", "i", "d", "a", "d", "e">>>>]

\* out_fieldnames of stream_merge: the fixed order of the output columns.
out_fieldnames ==
    <<<<"A", "n", "o">>,
      <<"I", "D", " ", "C", "N", "A", "E">>,
      <<"C", "N", "A", "E">>,
      <<"M", "a", "s", "s", "a", " ", "S", "a", "l", "a", "r", "i", "a", "l">>,
      <<"S", "a", "l", "a'", "r", "i", "o", " ", "M", "e'", "d", "i", "o">>,
      <<"N", "u'", "m", "e", "r", "o", " ", "d", "e", " ", "e", "m", "p", "r", "e", "g", "o", "s">>,
      <<"G", "a", "n", "h", "o", " ", "d", "e", " ", "O", "p", "o", "r", "t", "u", "n", "i", "d", "a", "d", "e">>,
      <<"S", "E", "T", "O", "R">>>>

\* The out_row key that each logical column fills (out_row of stream_merge).
OutNameOf(key) == out_fieldnames[CHOOSE i \in DOMAIN MergeKeys : MergeKeys[i] = key]

SETOR == out_fieldnames[8]

\* chosen: every logical column resolved against the header once, before the loop;
\* an unresolved column is logged and kept as None, the join key included.
ChooseAll(names) == [key \in Range(MergeKeys) |-> choose_column(names, col_candidates[key])]

\* get_col without its guard for an unresolved column: the lookup raises instead.
get_col_strict(ch, row, name_key) ==
    LET colname == ch[name_key]
    IN  IF colname = None \/ colname = <<>> THEN AttributeError
        ELSE LET v == MapGet(row, colname, <<>>)
             IN  IF v = None THEN AttributeError ELSE Strip(v)

\* get_col: "" for an unresolved column, else the row's value stripped; a value of
\* None (a row shorter than the header) has no strip and raises AttributeError.
get_col(ch, row, name_key) ==
    LET colname == ch[name_key]
    IN  IF colname = None \/ colname = <<>> THEN <<>>
        ELSE LET v == MapGet(row, colname, <<>>)
             IN  IF v = None THEN AttributeError ELSE Strip(v)

\* The side value of a join key: cnaes_map.get(id_cnae, "") if id_cnae else "".
Lookup(map, id_cnae) == IF id_cnae # <<>> THEN MapGet(map, id_cnae, <<>>) ELSE <<>>

\* out_row of one input row; AttributeError when any get_col raises.
MergeOutRow(ch, map, row) ==
    LET got == [key \in Range(MergeKeys) |-> get_col(ch, row, key)]
    IN  IF \E key \in Range(MergeKeys) : got[key] = AttributeError THEN AttributeError
        ELSE [name \in Range(out_fieldnames) |->
                IF name = SETOR THEN Lookup(map, got["id_cnae"])
                ELSE got[CHOOSE key \in Range(MergeKeys) : OutNameOf(key) = name]]

\* --- inputs of the join stage
MergeHeaders ==
    { <<<<"A", "n", "o">>, <<"I", "D", " ", "C", "N", "A", "E">>, <<"C", "N", "A", "E">>>>,
      <<<<"i", "d", "_", "c", "n", "a", "e">>, <<" ", "A", "N", "O", " ">>>>,
      <<<<"A", "n", "o">>, <<"C", "N", "A", "E">>>>,
      <<<<"A", "n", "o">>, <<"I", "D", " ", "C", "N", "A", "E">>, <<"C", "N", "A", "E">>,
        <<"M", "a", "s", "s", "a", " ", "S", "a", "l", "a", "r", "i", "a", "l">>,
        <<"S", "a", "l", "a", "r", "i", "o", " ", "M", "e", "d", "i", "o">>,
        <<"n", "u", "m", "e", "r", "o", "_", "d", "e", "_", "e", "m", "p", "r", "e", "g", "o", "s">>,
        <<"G", "a", "n", "h", "o", " ", "d", "e", " ", "O", "p", "o", "r", "t", "u", "n", "i", "d", "a", "d", "e">>>> }

MergeRows ==
    { <<<<"1", "9">>, <<"1">>, <<"x">>>>,
      <<<<"1", "9">>, <<" ", "2", " ">>, <<"x">>>>,
      <<<<"1", "9">>, <<>>, <<"x">>>>,
      <<<<"1", "9">>, <<"1">>>>,
      <<<<"1", "9">>>>,
      <<<<"1">>, <<"1", "9">>>>,
      <<<<"2", "0">>, <<"2">>, <<"y">>, <<"5">>, <<"6">>, <<"7">>, <<"8">>>> }

\* Side maps as load_cnaes_unicos builds them: keys and values already stripped.
MergeMaps ==
    { (<<"1">> :> <<"I", "n", "d">>),
      (<<"1">> :> <<"I", "n", "d">>) @@ (<<"2">> :> <<"A", "g", "r">>) @@ (<<"1", "9">> :> <<>>) }

\* Whether path.open decodes any byte of the file: it does not, the handle it
\* returns decodes lazily as the file is read.
OpenDecodes == FALSE

\* open_text: the encoding of the handle it returns.  The fallback to latin-1 is
\* taken only when path.open itself raises UnicodeDecodeError.
open_text(undecodable) == IF OpenDecodes /\ undecodable THEN "latin-1" ELSE "utf-8"

\* Reading data row n from the handle raises UnicodeDecodeError: the handle
\* decodes utf-8 and the row holds an undecodable byte.
DecodeFails(n) == enc = "utf-8" /\ badAt = n

InitMerge ==
    /\ pc = "start"
    /\ stage = "merge"
    /\ fieldnames \in MergeHeaders
    /\ rows \in Files(MergeRows, MaxRows)
    /\ cnaes_map \in MergeMaps
    /\ badAt = 0 /\ enc = "closed" /\ processed = 0 /\ cols = EmptyMap /\ out = <<>>
    /\ chosen = EmptyMap /\ written = 0
    /\ EmpIdle /\ MedIdle /\ NormIdle /\ CalcIdle /\ ParseIdle

\* stream_merge up to the loop: open both files, read the header, resolve the
\* columns, write the output header.
MergeOpen ==
    /\ pc = "start"
    /\ enc' = open_text(badAt # 0)
    /\ chosen' = ChooseAll(fieldnames)
    /\ pc' = "loop"
    /\ UNCHANGED <<stage, fieldnames, rows, badAt, processed, cols, out, cnaes_map, written>>
    /\ UNCHANGED <<empVars, medVars, normVars, calcVars, parseVars>>

\* One iteration of "for row in reader": count the row, build out_row, write it.
MergeRow ==
    /\ pc = "loop"
    /\ processed < Len(rows)
    /\ ~DecodeFails(processed + 1)
    /\ LET row == RowDict(fieldnames, rows[processed + 1])
           out_row == MergeOutRow(chosen, cnaes_map, row)
       IN  /\ processed' = processed + 1
           /\ IF out_row = AttributeError
              THEN pc' = "AttributeError" /\ UNCHANGED <<out, written>>
              ELSE /\ out' = Append(out, DictWriterRow(out_fieldnames, out_row))
                   /\ written' = written + 1
                   /\ pc' = pc
    /\ UNCHANGED <<stage, fieldnames, rows, badAt, enc, cols, cnaes_map, chosen>>
    /\ UNCHANGED <<empVars, medVars, normVars, calcVars, parseVars>>

\* The reader is exhausted: both files are closed and the totals are logged.
MergeDone ==
    /\ pc = "loop"
    /\ processed = Len(rows)
    /\ pc' = "done"
    /\ enc' = "closed"
    /\ UNCHANGED <<stage, fieldnames, rows, badAt, processed, cols, out, mergeVars>>
    /\ UNCHANGED <<empVars, medVars, normVars, calcVars, parseVars>>

Next == MergeOpen \/ MergeRow \/ MergeDone

Spec == InitMerge /\ [][Next]_vars

\* --- the join stage on a file that may hold an undecodable byte
EncHeader == <<<<"A", "n", "o">>, <<"I", "D", " ", "C", "N", "A", "E">>, <<"C", "N", "A", "E">>>>

EncRows ==
    { <<<<"1", "9">>, <<"1">>, <<"x">>>>,
      <<<<"1", "9">>, <<" ", "2", " ">>, <<"x">>>>,
      <<<<"2", "0">>, <<"7">>, <<"y">>>>,
      <<<<"2", "0">>, <<>>, <<"y">>>> }

InitEnc ==
    /\ pc = "start"
    /\ stage = "merge"
    /\ fieldnames = EncHeader
    /\ rows \in Files(EncRows, MaxRows)
    /\ cnaes_map \in MergeMaps
    /\ badAt \in 0..Len(rows)
    /\ enc = "closed" /\ processed = 0 /\ cols = EmptyMap /\ out = <<>>
    /\ chosen = EmptyMap /\ written = 0
    /\ EmpIdle /\ MedIdle /\ NormIdle /\ CalcIdle /\ ParseIdle

\* The read of data row processed + 1 raises UnicodeDecodeError inside
\* "for row in reader"; nothing catches it and the run aborts.
MergeDecodeError ==
    /\ pc = "loop"
    /\ processed < Len(rows)
    /\ DecodeFails(processed + 1)
    /\ pc' = "UnicodeDecodeError"
    /\ UNCHANGED <<ioVars, mergeVars, empVars, medVars, normVars, calcVars, parseVars>>

NextEnc == MergeOpen \/ MergeRow \/ MergeDone \/ MergeDecodeError

SpecEnc == InitEnc /\ [][NextEnc]_vars

\* ------------------------------------------------------------------ compute_empregabilidade.py
\* load_desocupacao: the JSON object as its (key, value) pairs in file order; a
\* value float() rejects (here null, written None) is logged and left out.
RECURSIVE load_desocupacao(_)
load_desocupacao(items) ==
    IF items = <<>> THEN EmptyMap
    ELSE LET before == load_desocupacao(SubSeq(items, 1, Len(items) - 1))
             item == items[Len(items)]
         IN  IF item[2] = None THEN before ELSE MapPut(before, Strip(item[1]), item[2])

\* The warnings load_desocupacao logs, one per rejected entry.
RECURSIVE LoadWarnings(_)
LoadWarnings(items) ==
    IF items = <<>> THEN <<>>
    ELSE (IF Head(items)[2] = None THEN <<<<"taxa invalida", Head(items)[1]>>>> ELSE <<>>)
         \o LoadWarnings(Tail(items))

\* The three columns aggregate_empregos resolves from the header.
EmpResolve(names) ==
    [c \in {"ano", "setor", "num_emp"} |->
        CASE c = "ano" ->
               choose_column(names, <<<<"A", "n", "o">>, <<"a", "n", "o">>, <<"A", "N", "O">>>>)
          [] c = "setor" ->
               choose_column(names, <<<<"S", "E", "T", "O", "R">>, <<"s", "e", "t", "o", "r">>>>)
          [] c = "num_emp" ->
               choose_column(names,
                 <<<<"N", "u'", "m", "e", "r", "o", " ", "d", "e", " ", "e", "m", "p", "r", "e", "g", "o", "s">>,
                   <<"N", "u", "m", "e", "r", "o", " ", "d", "e", " ", "e", "m", "p", "r", "e", "g", "o", "s">>,
                   <<"n", "u", "m", "e", "r", "o", " ", "d", "e", " ", "e", "m", "p", "r", "e", "g", "o", "s">>,
                   <<"n", "u", "m", "e", "r", "o", "_", "d", "e", "_", "e", "m", "p", "r", "e", "g", "o", "s">>,
                   <<"n", "u", "m", "_", "e", "m", "p", "r", "e", "g", "o", "s">>>>)]

\* row.get(col, "").strip(): AttributeError when the row holds None for the column.
GetStripped(row, col) ==
    LET v == MapGet(row, col, <<>>) IN IF v = None THEN AttributeError ELSE Strip(v)

\* The float of num_emp_raw: "," read as the decimal point, and when that fails
\* with "." dropped as thousands separator; ValueError when both fail.
ParseNumEmp(raw) ==
    LET first == ParseFloat(Replace(raw, ",", <<".">>))
    IN  IF first # ValueError THEN first
        ELSE ParseFloat(Replace(Replace(raw, ".", <<>>), ",", <<".">>))

\* What one iteration of aggregate_empregos does with a row: raise, skip it
\* (continue), or add num_emp to counts[(ano, setor)].
EmpClassify(c, row) ==
    LET ano == GetStripped(row, c["ano"])
        setor == GetStripped(row, c["setor"])
        stripped == GetStripped(row, c["num_emp"])
        num_emp_raw == Replace(stripped, "\"", <<>>)
    IN  IF AttributeError \in {ano, setor, stripped}
        THEN [kind |-> "raise", key |-> None, val |-> Zero]
        ELSE IF ano = <<>> \/ setor = <<>> \/ num_emp_raw = <<>>
        THEN [kind |-> "skip", key |-> None, val |-> Zero]
        ELSE IF ParseNumEmp(num_emp_raw) = ValueError
        THEN [kind |-> "skip", key |-> None, val |-> Zero]
        ELSE [kind |-> "add", key |-> <<ano, setor>>, val |-> ParseNumEmp(num_emp_raw)]

\* counts[key] = num_emp: the bucket is overwritten instead of added to.
AddCount_overwrite(cnt, key, num_emp) == MapPut(cnt, key, num_emp)

\* counts[key] += num_emp on a defaultdict(float)
AddCount(cnt, key, num_emp) == MapPut(cnt, key, RAdd(MapGet(cnt, key, Zero), num_emp))

\* calc_empregabilidade with the unemployed taken as E * taxa / 100, the rate
\* applied to the employed instead of to the labour force.
calc_empregabilidade_rate_of_employed(E, r) ==
    IF ~RLt(r, FromInt(100)) THEN Zero
    ELSE LET desempregados == RMul(E, RDiv(r, FromInt(100)))
             total == RAdd(E, desempregados)
         IN  IF total = Zero THEN Zero ELSE RDiv(E, total)

\* calc_empregabilidade with the unemployed taken as taxa / (100 - taxa), not
\* scaled by the employed.
calc_empregabilidade_unscaled(E, r) ==
    IF ~RLt(r, FromInt(100)) THEN Zero
    ELSE LET desempregados == RDiv(r, RSub(FromInt(100), r))
             total == RAdd(E, desempregados)
         IN  IF total = Zero THEN Zero ELSE RDiv(E, total)

\* calc_empregabilidade(empregados, taxa)
calc_empregabilidade(E, r) ==
    IF ~RLt(r, FromInt(100)) THEN Zero
    ELSE LET denom == RSub(FromInt(100), r)
         IN  IF denom = Zero THEN Zero
             ELSE LET desempregados == RMul(E, RDiv(r, denom))
                      total == RAdd(E, desempregados)
                  IN  IF total = Zero THEN Zero ELSE RDiv(E, total)

\* main's loop body without the rate: the group is zero-filled instead of skipped.
AddResult_zero_fill(res, key, E, tx) ==
    IF key[1] \notin DOMAIN tx THEN MapPut(res, key, Zero)
    ELSE MapPut(res, key, calc_empregabilidade(E, tx[key[1]]))

\* main's loop body: results after one group, which is left out when its year has
\* no rate.
AddResult(res, key, E, tx) ==
    IF key[1] \notin DOMAIN tx THEN res
    ELSE MapPut(res, key, calc_empregabilidade(E, tx[key[1]]))

\* The warning calc_empregabilidade logs for a rate of 100 or more.
CalcWarnings(r) == IF ~RLt(r, FromInt(100)) THEN <<<<"taxa >= 100", r>>>> ELSE <<>>

\* write_output: one line per key of results, sorted by (ano, setor), the value
\* with six decimals.
write_output(res) ==
    LET ks == SortedKeys(DOMAIN res)
    IN  [i \in DOMAIN ks |-> <<ks[i][1], ks[i][2], Fmt6(res[ks[i]])>>]

\* --- inputs of the employability stage
EmpHeaderGood ==
    <<<<"A", "n", "o">>, <<"S", "E", "T", "O", "R">>,
      <<"n", "u", "m", "_", "e", "m", "p", "r", "e", "g", "o", "s">>>>

EmpHeaderNoValue == <<<<"a", "n", "o">>, <<"s", "e", "t", "o", "r">>>>

EmpHeaderNoYear ==
    <<<<"S", "E", "T", "O", "R">>, <<"n", "u", "m", "_", "e", "m", "p", "r", "e", "g", "o", "s">>>>

EmpHeaderNoSector ==
    <<<<"A", "n", "o">>, <<"n", "u", "m", "_", "e", "m", "p", "r", "e", "g", "o", "s">>>>

EmpHeaders == {EmpHeaderGood, EmpHeaderNoValue, EmpHeaderNoYear, EmpHeaderNoSector}

EmpRows ==
    { <<<<"1", "9">>, <<"A">>, <<"1", "0", "0">>>>,
      <<<<" ", "1", "9">>, <<"A", " ">>, <<"1", ",", "5">>>>,
      <<<<"1", "9">>, <<"B">>, <<"1", ".", "0", "0", "0", ",", "5">>>>,
      <<<<"2", "0">>, <<"A">>, <<"x">>>>,
      <<<<"2", "0">>, <<"A">>, <<>>>>,
      <<<<>>, <<"A">>, <<"5">>>>,
      <<<<"2", "0">>, <<>>, <<"5">>>>,
      <<<<"2", "0">>, <<"B">>, <<"0">>>>,
      <<<<"1", "9">>, <<"A">>>> }

EmpTaxas ==
    { <<<<<<"1", "9">>, FromInt(50)>>, <<<<"2", "0">>, Zero>>>>,
      <<<<<<"2", "0">>, FromInt(100)>>>>,
      <<<<<<" ", "1", "9">>, <<25, 2>>>>, <<<<"2", "0">>, None>>>> }

InitEmp ==
    /\ pc = "start"
    /\ stage = "emp"
    /\ fieldnames \in EmpHeaders
    /\ rows \in Files(EmpRows, MaxRows)
    /\ fieldnames # EmpHeaderGood => Len(rows) <= 1
    /\ taxas_json \in EmpTaxas
    /\ badAt = 0 /\ enc = "closed" /\ processed = 0 /\ cols = EmptyMap /\ out = <<>>
    /\ taxas = EmptyMap /\ counts = EmptyMap /\ count_keys = <<>>
    /\ results = EmptyMap /\ missing_taxas = {} /\ warnings = <<>> /\ todo = <<>>
    /\ MergeIdle /\ MedIdle /\ NormIdle /\ CalcIdle /\ ParseIdle

\* main: taxas = load_desocupacao(desemp_path)
EmpLoad ==
    /\ pc = "start"
    /\ taxas' = load_desocupacao(taxas_json)
    /\ warnings' = warnings \o LoadWarnings(taxas_json)
    /\ pc' = "open"
    /\ UNCHANGED <<ioVars, taxas_json, counts, count_keys, results, missing_taxas, todo>>
    /\ UNCHANGED <<mergeVars, medVars, normVars, calcVars, parseVars>>

\* aggregate_empregos up to its loop: open the file, resolve the three columns,
\* exit with status 1 when one of them is missing.
EmpOpen ==
    /\ pc = "open"
    /\ enc' = open_text(badAt # 0)
    /\ cols' = EmpResolve(fieldnames)
    /\ pc' = IF \E c \in DOMAIN cols' : cols'[c] = None THEN "SystemExit" ELSE "agg"
    /\ UNCHANGED <<stage, fieldnames, rows, badAt, processed, out>>
    /\ UNCHANGED <<empVars, mergeVars, medVars, normVars, calcVars, parseVars>>

\* One iteration of the loop of aggregate_empregos.
EmpRow ==
    /\ pc = "agg"
    /\ processed < Len(rows)
    /\ LET r == EmpClassify(cols, RowDict(fieldnames, rows[processed + 1]))
       IN  /\ processed' = processed + 1
           /\ pc' = IF r.kind = "raise" THEN "AttributeError" ELSE pc
           /\ counts' = IF r.kind = "add" THEN AddCount(counts, r.key, r.val) ELSE counts
           /\ count_keys' = IF r.kind = "add" /\ r.key \notin DOMAIN counts
                            THEN Append(count_keys, r.key) ELSE count_keys
    /\ UNCHANGED <<stage, fieldnames, rows, badAt, enc, cols, out>>
    /\ UNCHANGED <<taxas_json, taxas, results, missing_taxas, warnings, todo>>
    /\ UNCHANGED <<mergeVars, medVars, normVars, calcVars, parseVars>>

\* aggregate_empregos returns counts; main starts over counts.items().
EmpAggDone ==
    /\ pc = "agg"
    /\ processed = Len(rows)
    /\ enc' = "closed"
    /\ todo' = count_keys
    /\ pc' = "derive"
    /\ UNCHANGED <<stage, fieldnames, rows, badAt, processed, cols, out>>
    /\ UNCHANGED <<taxas_json, taxas, counts, count_keys, results, missing_taxas, warnings>>
    /\ UNCHANGED <<mergeVars, medVars, normVars, calcVars, parseVars>>

\* One iteration of main's loop over the groups: a group whose year has no rate
\* is skipped and its year noted, the others get their employability.
EmpGroup ==
    /\ pc = "derive"
    /\ todo # <<>>
    /\ LET key == Head(todo)
           ano == key[1]
       IN  /\ results' = AddResult(results, key, counts[key], taxas)
           /\ IF ano \notin DOMAIN taxas
              THEN missing_taxas' = missing_taxas \cup {ano} /\ UNCHANGED warnings
              ELSE warnings' = warnings \o CalcWarnings(taxas[ano]) /\ UNCHANGED missing_taxas
    /\ todo' = Tail(todo)
    /\ UNCHANGED <<pc, ioVars, taxas_json, taxas, counts, count_keys>>
    /\ UNCHANGED <<mergeVars, medVars, normVars, calcVars, parseVars>>

\* After the loop: one warning naming the missing years, if any, then write_output.
EmpFinish ==
    /\ pc = "derive"
    /\ todo = <<>>
    /\ warnings' = IF missing_taxas # {}
                   THEN Append(warnings, <<"taxas ausentes", missing_taxas>>) ELSE warnings
    /\ out' = write_output(results)
    /\ pc' = "done"
    /\ UNCHANGED <<stage, fieldnames, rows, badAt, enc, processed, cols>>
    /\ UNCHANGED <<taxas_json, taxas, counts, count_keys, results, missing_taxas, todo>>
    /\ UNCHANGED <<mergeVars, medVars, normVars, calcVars, parseVars>>

NextEmp == EmpLoad \/ EmpOpen \/ EmpRow \/ EmpAggDone \/ EmpGroup \/ EmpFinish

SpecEmp == InitEmp /\ [][NextEmp]_vars

\* ------------------------------------------------------------------ claims: join stage
\* The trimmed join key of input row i as the header resolves it ("" when the
\* column is unresolved or the row has no value for it).
JoinKey(i) ==
    LET col == choose_column(fieldnames, col_candidates["id_cnae"])
        v == IF col = None THEN <<>> ELSE MapGet(RowDict(fieldnames, rows[i]), col, <<>>)
    IN  IF v = None THEN <<>> ELSE Strip(v)

\* C1: stream_merge writes exactly one output row per data row read, whatever the
\* row contains: after every row the rows written equal the rows read, and when
\* the run has ended the output holds as many rows as the input.
C1_OneOutputRowPerInputRow ==
    /\ written = processed
    /\ Len(out) = processed
    /\ pc \in {"done", "AttributeError"} => Len(out) = Len(rows)

\* C2: every input row read has an output row whose SETOR is cnaes_map[k] when the
\* row's trimmed join key k is a key of the map and "" otherwise; the row is
\* written in both cases.
C2_JoinCompleteness ==
    \A i \in 1..processed :
        /\ i <= Len(out)
        /\ Field(out_fieldnames, out[i], SETOR) =
              (IF JoinKey(i) \in DOMAIN cnaes_map THEN cnaes_map[JoinKey(i)] ELSE <<>>)

C10_FallbackCompletes ==
    badAt # 0 =>
        /\ pc # "UnicodeDecodeError"
        /\ (pc = "loop" /\ processed >= badAt) => enc = "latin-1"

\* ------------------------------------------------------------------ claims: employability stage
\* The raw text of input row i under a resolved column; None when the row has no
\* value for it.
RawOf(i, col) == MapGet(RowDict(fieldnames, rows[i]), col, <<>>)

\* What the claim says of input row i, with c the resolved columns: whether it is
\* summable (trimmed year, trimmed sector and value all non-empty, value
\* parsable), its group and its parsed value.
RowFacts(c, i) ==
    LET ano == RawOf(i, c["ano"])
        setor == RawOf(i, c["setor"])
        val == RawOf(i, c["num_emp"])
        present == None \notin {ano, setor, val}
        text == IF present THEN Replace(Strip(val), "\"", <<>>) ELSE <<>>
        num == ParseNumEmp(text)
    IN  [ok  |-> present /\ Strip(ano) # <<>> /\ Strip(setor) # <<>> /\ text # <<>>
                 /\ num # ValueError,
         key |-> <<Strip(ano), Strip(setor)>>,
         val |-> num]

\* The arithmetic sum of the values of the summable rows of group k among the
\* first n rows, facts[i] being RowFacts of row i.
RECURSIVE SumOfGroup(_, _, _)
SumOfGroup(facts, k, n) ==
    IF n = 0 THEN Zero
    ELSE IF facts[n].ok /\ facts[n].key = k
    THEN RAdd(SumOfGroup(facts, k, n - 1), facts[n].val)
    ELSE SumOfGroup(facts, k, n - 1)

\* C4: after any number of rows, counts has exactly the groups of the summable
\* rows read so far (year, sector and value non-empty, value parsable), each with
\* the arithmetic sum of their values; no other row creates a key or adds to a
\* bucket, and every key has a non-empty year and sector.
C4_SumOfSummableRows ==
    pc \in {"agg", "derive", "done", "AttributeError"} =>
        LET facts == [i \in 1..processed |-> RowFacts(cols, i)]
        IN  /\ DOMAIN counts = {facts[i].key : i \in {j \in 1..processed : facts[j].ok}}
            /\ \A k \in DOMAIN counts :
                  /\ counts[k] = SumOfGroup(facts, k, processed)
                  /\ k[1] # <<>> /\ k[2] # <<>>

\* C4 witness: aggregation ended with a bucket summed from two rows (100 + 1,5)
\* while a third row was skipped.
C4_Witness ==
    /\ pc = "derive"
    /\ processed = 3
    /\ Cardinality({j \in 1..processed : RowFacts(cols, j).ok}) = 2
    /\ \E k \in DOMAIN counts : counts[k] = <<203, 2>>

\* The loaded rate table has an entry for year y.
HasRate(y) ==
    \E i \in DOMAIN taxas_json : Strip(taxas_json[i][1]) = y /\ taxas_json[i][2] # None

MissingReports == SelectSeq(warnings, LAMBDA w : w[1] = "taxas ausentes")

\* C7: a group is in the employability output if and only if its year has an
\* entry in the loaded rate table (a group without one is left out, not
\* zero-filled); the missing-years set holds exactly the years of the left-out
\* groups, and it is reported once, after the last group, however many groups
\* share a year.
C7_MissingYearsExcludedAndReportedOnce ==
    /\ pc = "derive" => MissingReports = <<>>
    /\ pc \in {"derive", "done"} =>
          LET seen == IF pc = "done" THEN DOMAIN counts
                      ELSE DOMAIN counts \ Range(todo)
          IN  /\ DOMAIN results = {k \in seen : HasRate(k[1])}
              /\ missing_taxas = {k[1] : k \in {g \in seen : ~HasRate(g[1])}}
    /\ pc = "done" =>
          /\ {<<out[i][1], out[i][2]>> : i \in DOMAIN out} = DOMAIN results
          /\ Len(out) = Cardinality(DOMAIN results)
          /\ MissingReports =
                (IF missing_taxas = {} THEN <<>> ELSE <<<<"taxas ausentes", missing_taxas>>>>)

\* C7 witness: a finished run in which two groups share a year without a rate and
\* a third group, of a year with a rate, is in the output.
C7_Witness ==
    /\ pc = "done"
    /\ \E a, b \in DOMAIN counts : a # b /\ a[1] = b[1] /\ ~HasRate(a[1])
    /\ Len(out) = 1
    /\ Len(MissingReports) = 1

\* ------------------------------------------------------------------ calc_empregabilidade on drawn inputs
CalcE == {FromInt(e) : e \in (-2..MaxE) \cup {100}} \cup {<<3, 2>>}

CalcR == {FromInt(r) : r \in {-50, 0, 50, 99, 100, 101, 150}} \cup {<<25, 2>>, <<199, 2>>}

IoIdle ==
    /\ fieldnames = <<>> /\ rows = <<>> /\ badAt = 0 /\ enc = "closed"
    /\ processed = 0 /\ cols = EmptyMap /\ out = <<>>

InitCalc ==
    /\ pc = "calc"
    /\ stage = "calc"
    /\ empregados \in CalcE
    /\ taxa \in CalcR
    /\ empreg = None
    /\ IoIdle /\ MergeIdle /\ EmpIdle /\ MedIdle /\ NormIdle /\ ParseIdle

\* empreg = calc_empregabilidade(empregados, taxa)
CalcApply ==
    /\ pc = "calc"
    /\ empreg' = calc_empregabilidade(empregados, taxa)
    /\ pc' = "calc_done"
    /\ UNCHANGED <<ioVars, mergeVars, empVars, medVars, normVars, empregados, taxa, parseVars>>

NextCalc == CalcApply

SpecCalc == InitCalc /\ [][NextCalc]_vars

\* C6: calc_empregabilidade(E, r) never divides by zero; it is 0.0 for r >= 100
\* and when E + E*r/(100-r) is 0, and otherwise the x with x * (E + E*r/(100-r))
\* = E; E=100, r=50 gives 0.5, E>0 with r=0 gives 1.0, r=100 gives 0.0.
C6_EmployabilityFormula ==
    pc = "calc_done" =>
        LET E == empregados
            r == taxa
            hundred == FromInt(100)
            \* E + E*r/(100-r) = 100*E/(100-r), written without a division by 100-r
            totalTimesDenom == RMul(hundred, E)
        IN  /\ empreg # ZeroDivisionError
            /\ ~RLt(r, hundred) => empreg = Zero
            /\ (RLt(r, hundred) /\ totalTimesDenom = Zero) => empreg = Zero
            /\ (RLt(r, hundred) /\ totalTimesDenom # Zero) =>
                  RMul(empreg, totalTimesDenom) = RMul(E, RSub(hundred, r))
            /\ (E = hundred /\ r = FromInt(50)) => empreg = <<1, 2>>
            /\ (RLt(Zero, E) /\ r = Zero) => empreg = <<1, 1>>
            /\ r = hundred => empreg = Zero

\* C6 witness: the function was applied to E = 100, r = 50 and gave 0.5.
C6_Witness ==
    pc = "calc_done" /\ empregados = FromInt(100) /\ taxa = FromInt(50) /\ empreg = <<1, 2>>

\* ------------------------------------------------------------------ median stage (compute_salario_medio_setor.py)
\* parse_decimal of compute_salario_medio_setor.py: 0.0 for None, for blank text
\* and for text no form reads; quotes are dropped, then the text is read as it
\* is, then with "," as the decimal point, then with "." dropped and "," as the
\* decimal point.
parse_decimal(value) ==
    IF value = None THEN Zero
    ELSE IF Strip(value) = <<>> THEN Zero
    ELSE LET s == Replace(Strip(value), "\"", <<>>)
             direct == ParseFloat(s)
             comma == ParseFloat(Replace(s, ",", <<".">>))
             milhar == ParseFloat(Replace(Replace(s, ".", <<>>), ",", <<".">>))
         IN  IF direct # ValueError THEN direct
             ELSE IF comma # ValueError THEN comma
             ELSE IF milhar # ValueError THEN milhar
             ELSE Zero

\* The three columns aggregate_median resolves from the header.
MedResolve(names) ==
    [c \in {"ano", "setor", "salario"} |->
        CASE c = "ano" ->
               choose_column(names, <<<<"A", "n", "o">>, <<"a", "n", "o">>, <<"A", "N", "O">>>>)
          [] c = "setor" ->
               choose_column(names, <<<<"S", "E", "T", "O", "R">>, <<"s", "e", "t", "o", "r">>>>)
          [] c = "salario" ->
               choose_column(names,
                 <<<<"S", "a", "l", "a'", "r", "i", "o", " ", "M", "e'", "d", "i", "o">>,
                   <<"S", "a", "l", "a", "r", "i", "o", " ", "M", "e", "d", "i", "o">>,
                   <<"s", "a", "l", "a", "r", "i", "o", " ", "m", "e", "d", "i", "o">>,
                   <<"s", "a", "l", "a", "r", "i", "o", "_", "m", "e", "d", "i", "o">>,
                   <<"S", "a", "l", "a'", "r", "i", "o", " ", "M", "e", "d", "i", "o">>>>)]

\* What one iteration of aggregate_median does with a row: raise, skip it
\* (continue), or append the salary to bins[(ano, setor)].
MedClassify(c, zeros, row) ==
    LET ano == GetStripped(row, c["ano"])
        setor == GetStripped(row, c["setor"])
        salario == parse_decimal(MapGet(row, c["salario"], <<>>))
    IN  IF AttributeError \in {ano, setor}
        THEN [kind |-> "raise", key |-> None, val |-> Zero]
        ELSE IF ano = <<>> \/ setor = <<>>
        THEN [kind |-> "skip", key |-> None, val |-> Zero]
        ELSE IF ~zeros /\ salario = Zero
        THEN [kind |-> "skip", key |-> None, val |-> Zero]
        ELSE [kind |-> "add", key |-> <<ano, setor>>, val |-> salario]

\* bins[key].append(salario) on a defaultdict(list)
AppendBin(b, key, salario) == MapPut(b, key, Append(MapGet(b, key, <<>>), salario))

\* sorted(data): insertion of x into an ascending list, after its equals.
RECURSIVE InsertSorted(_, _)
InsertSorted(s, x) ==
    IF s = <<>> THEN <<x>>
    ELSE IF RLt(x, Head(s)) THEN <<x>> \o s
    ELSE <<Head(s)>> \o InsertSorted(Tail(s), x)

RECURSIVE Sorted(_)
Sorted(values) ==
    IF values = <<>> THEN <<>>
    ELSE InsertSorted(Sorted(SubSeq(values, 1, Len(values) - 1)), values[Len(values)])

\* The median taken of the values in their order of arrival, without the sort.
median_unsorted(values) ==
    LET n == Len(values)
        i == n \div 2
    IN  IF n % 2 = 1 THEN values[i + 1]
        ELSE RDiv(RAdd(values[i], values[i + 1]), FromInt(2))

\* statistics.median(values) for a non-empty list: the middle of the sorted
\* values, or the mean of the two middle ones.
median(values) ==
    LET data == Sorted(values)
        n == Len(data)
        i == n \div 2
    IN  IF n % 2 = 1 THEN data[i + 1]
        ELSE RDiv(RAdd(data[i], data[i + 1]), FromInt(2))

\* The loop over bins.items() at the end of aggregate_median.
Medians(b) == [key \in DOMAIN b |-> IF b[key] = <<>> THEN Zero ELSE median(b[key])]

\* --- inputs of the median stage
MedHeaderGood ==
    <<<<"A", "n", "o">>, <<"S", "E", "T", "O", "R">>,
      <<"S", "a", "l", "a'", "r", "i", "o", " ", "M", "e'", "d", "i", "o">>>>

MedHeaderNoSalary == <<<<"A", "n", "o">>, <<"S", "E", "T", "O", "R">>>>

MedHeaderNoYear ==
    <<<<"S", "E", "T", "O", "R">>,
      <<"s", "a", "l", "a", "r", "i", "o", "_", "m", "e", "d", "i", "o">>>>

MedHeaderNoSector ==
    <<<<"A", "N", "O">>, <<"s", "a", "l", "a", "r", "i", "o", "_", "m", "e", "d", "i", "o">>>>

MedHeaders == {MedHeaderGood, MedHeaderNoSalary, MedHeaderNoYear, MedHeaderNoSector}

MedRows ==
    { <<<<"1", "9">>, <<"A">>, <<"1", "0">>>>,
      <<<<"1", "9">>, <<"A">>, <<"2", "0">>>>,
      <<<<" ", "1", "9">>, <<"A", " ">>, <<"3", "0">>>>,
      <<<<"1", "9">>, <<"A">>, <<"0">>>>,
      <<<<"1", "9">>, <<"B">>, <<"1", ".", "0", "0", "0", ",", "5">>>>,
      <<<<"1", "9">>, <<"B">>, <<"x">>>>,
      <<<<>>, <<"A">>, <<"5">>>>,
      <<<<"1", "9">>, <<"A">>>>,
      <<<<"1", "9">>>> }

InitMedian ==
    /\ pc = "start"
    /\ stage = "median"
    /\ fieldnames \in MedHeaders
    /\ rows \in Files(MedRows, MaxRows)
    /\ fieldnames # MedHeaderGood => Len(rows) <= 1
    /\ include_zeros \in BOOLEAN
    /\ bins = EmptyMap /\ bin_keys = <<>> /\ medians = EmptyMap
    /\ badAt = 0 /\ enc = "closed" /\ processed = 0 /\ cols = EmptyMap /\ out = <<>>
    /\ MergeIdle /\ EmpIdle /\ NormIdle /\ CalcIdle /\ ParseIdle

\* aggregate_median up to its loop: open the file, resolve the three columns,
\* exit with status 1 when one of them is missing.
MedOpen ==
    /\ pc = "start"
    /\ enc' = open_text(badAt # 0)
    /\ cols' = MedResolve(fieldnames)
    /\ pc' = IF \E c \in DOMAIN cols' : cols'[c] = None \/ cols'[c] = <<>>
             THEN "SystemExit" ELSE "agg"
    /\ UNCHANGED <<stage, fieldnames, rows, badAt, processed, out>>
    /\ UNCHANGED <<medVars, mergeVars, empVars, normVars, calcVars, parseVars>>

\* One iteration of the loop of aggregate_median.
MedRow ==
    /\ pc = "agg"
    /\ processed < Len(rows)
    /\ LET r == MedClassify(cols, include_zeros, RowDict(fieldnames, rows[processed + 1]))
       IN  /\ processed' = processed + 1
           /\ pc' = IF r.kind = "raise" THEN "AttributeError" ELSE pc
           /\ bins' = IF r.kind = "add" THEN AppendBin(bins, r.key, r.val) ELSE bins
           /\ bin_keys' = IF r.kind = "add" /\ r.key \notin DOMAIN bins
                          THEN Append(bin_keys, r.key) ELSE bin_keys
    /\ UNCHANGED <<stage, fieldnames, rows, badAt, enc, cols, out, include_zeros, medians>>
    /\ UNCHANGED <<mergeVars, empVars, normVars, calcVars, parseVars>>

\* After the loop aggregate_median takes the median of every bucket and returns.
MedAggDone ==
    /\ pc = "agg"
    /\ processed = Len(rows)
    /\ enc' = "closed"
    /\ medians' = Medians(bins)
    /\ pc' = "write"
    /\ UNCHANGED <<stage, fieldnames, rows, badAt, processed, cols, out, include_zeros, bins, bin_keys>>
    /\ UNCHANGED <<mergeVars, empVars, normVars, calcVars, parseVars>>

\* main writes one line per group, sorted by (ano, setor), six decimals.
MedWrite ==
    /\ pc = "write"
    /\ out' = write_output(medians)
    /\ pc' = "done"
    /\ UNCHANGED <<stage, fieldnames, rows, badAt, enc, processed, cols, medVars>>
    /\ UNCHANGED <<mergeVars, empVars, normVars, calcVars, parseVars>>

NextMedian == MedOpen \/ MedRow \/ MedAggDone \/ MedWrite

SpecMedian == InitMedian /\ [][NextMedian]_vars

\* ------------------------------------------------------------------ claims: median stage
\* The k-th smallest (k from 1) of a non-empty list of values, by counting: the
\* value with fewer than k values below it and at least k values not above it.
KthSmallest(v, k) ==
    CHOOSE x \in Range(v) :
        /\ Cardinality({i \in DOMAIN v : RLt(v[i], x)}) < k
        /\ Cardinality({i \in DOMAIN v : ~RLt(x, v[i])}) >= k

\* C5: for every group with n >= 1 retained salaries the median written is the
\* middle value in ascending order when n is odd and the mean of the two middle
\* values when n is even, whatever the order the rows arrived in; 10, 20, 30
\* give 20 and 10, 20 give 15.
C5_MedianOfRetainedValues ==
    pc \in {"write", "done"} =>
        /\ DOMAIN medians = DOMAIN bins
        /\ \A key \in DOMAIN bins :
              LET v == bins[key]
                  n == Len(v)
                  m == medians[key]
              IN  /\ n >= 1
                  /\ n % 2 = 1 => m = KthSmallest(v, (n + 1) \div 2)
                  /\ n % 2 = 0 =>
                        RMul(m, FromInt(2)) =
                           RAdd(KthSmallest(v, n \div 2), KthSmallest(v, n \div 2 + 1))
                  /\ (n = 3 /\ Range(v) = {FromInt(10), FromInt(20), FromInt(30)})
                        => m = FromInt(20)
                  /\ (n = 2 /\ Range(v) = {FromInt(10), FromInt(20)}) => m = FromInt(15)
        /\ pc = "done" =>
              \A i \in DOMAIN out : out[i][3] = Fmt6(medians[<<out[i][1], out[i][2]>>])

\* C5 witness: a finished run whose group ("19", "A") received 30, 10, 20 in
\* that order and has the median 20.
C5_Witness ==
    /\ pc = "done"
    /\ \E key \in DOMAIN bins :
          /\ bins[key] = <<FromInt(30), FromInt(10), FromInt(20)>>
          /\ medians[key] = FromInt(20)
    /\ \E i \in DOMAIN out : out[i][3] = Fmt6(FromInt(20))

\* ------------------------------------------------------------------ normalizer (normalize_salario_demanda.py)
\* parse_decimal without its second attempt: text that float() rejects is 0.0.
parse_decimal_norm_direct_only(value) ==
    IF value = None THEN Zero
    ELSE IF Strip(value) = <<>> THEN Zero
    ELSE LET direct == ParseFloat(Replace(Strip(value), "\"", <<>>))
         IN  IF direct # ValueError THEN direct ELSE Zero

\* parse_decimal of normalize_salario_demanda.py: 0.0 for None, for blank text and
\* for text no form reads; quotes are dropped, then the text is read as it is,
\* then with "." dropped and "," as the decimal point.
parse_decimal_norm(value) ==
    IF value = None THEN Zero
    ELSE IF Strip(value) = <<>> THEN Zero
    ELSE LET s == Replace(Strip(value), "\"", <<>>)
             direct == ParseFloat(s)
             milhar == ParseFloat(Replace(Replace(s, ".", <<>>), ",", <<".">>))
         IN  IF direct # ValueError THEN direct
             ELSE IF milhar # ValueError THEN milhar
             ELSE Zero

\* normalize(value, minv, maxv)
normalize(value, minv, maxv) ==
    IF maxv = minv THEN Zero ELSE RDiv(RSub(value, minv), RSub(maxv, minv))

\* The four columns process resolves from the header with its local choose.
NormResolve(names) ==
    [c \in {"ano", "setor", "demanda", "salario"} |->
        CASE c = "ano" -> choose_column(names, <<<<"a", "n", "o">>>>)
          [] c = "setor" -> choose_column(names, <<<<"s", "e", "t", "o", "r">>>>)
          [] c = "demanda" ->
               choose_column(names,
                 <<<<"d", "e", "m", "a", "n", "d", "a">>, <<"D", "e", "m", "a", "n", "d", "a">>>>)
          [] c = "salario" ->
               choose_column(names,
                 <<<<"s", "a", "l", "a", "r", "i", "o", "_", "m", "e", "d", "i", "a", "n", "a">>,
                   <<"s", "a", "l", "a", "r", "i", "o", "_", "m", "e", "d", "i", "o">>,
                   <<"s", "a", "l", "a", "r", "i", "o", "_", "m", "e", "d", "i", "a", "n", "a">>>>)]

\* (row.get(col) or "").strip(); a column that is not resolved gives "".
GetOrEmpty(row, col) ==
    LET v == IF col = None THEN None ELSE MapGet(row, col, None)
    IN  IF v = None THEN <<>> ELSE Strip(v)

\* The key of the min/max tables with the year in it: (ano, setor).
RangeKey_year_and_sector(c, row) == <<GetOrEmpty(row, c["ano"]), GetOrEmpty(row, c["setor"])>>

\* The key under which both passes store and look up a row's minimum and
\* maximum: the trimmed sector.
RangeKey(c, row) == GetOrEmpty(row, c["setor"])

\* if prev_min is None or v < prev_min: table[key] = v
UpdateMin(table, key, v) ==
    IF key \notin DOMAIN table \/ RLt(v, table[key]) THEN MapPut(table, key, v) ELSE table

\* The maximum that keeps the first value it saw.
UpdateMax_keeps_first(table, key, v) ==
    IF key \notin DOMAIN table THEN MapPut(table, key, v) ELSE table

\* if prev_max is None or v > prev_max: table[key] = v
UpdateMax(table, key, v) ==
    IF key \notin DOMAIN table \/ RLt(table[key], v) THEN MapPut(table, key, v) ELSE table

\* The two names pass 2 appends to the header.
NormNewColumns ==
    <<<<"d", "e", "m", "a", "n", "d", "a", "_", "n", "o", "r", "m", "a", "l", "i", "z", "a", "d", "a">>,
      <<"s", "a", "l", "a", "r", "i", "o", "_", "m", "e", "d", "i", "a", "n", "a", "_",
        "n", "o", "r", "m", "a", "l", "i", "z", "a", "d", "o">>>>

\* The row pass 2 hands to the writer: the row read with the two normalized
\* values added, each with six decimals.
NormOutDict(c, row, minD, maxD, minS, maxS) ==
    LET key == RangeKey(c, row)
        dem == parse_decimal_norm(MapGet(row, c["demanda"], None))
        sal == parse_decimal_norm(MapGet(row, c["salario"], None))
        min_dem == MapGet(minD, key, Zero)
        max_dem == MapGet(maxD, key, min_dem)
        min_sal == MapGet(minS, key, Zero)
        max_sal == MapGet(maxS, key, min_sal)
        d1 == MapPut(row, NormNewColumns[1], Fmt6(normalize(dem, min_dem, max_dem)))
    IN  MapPut(d1, NormNewColumns[2], Fmt6(normalize(sal, min_sal, max_sal)))

\* --- inputs of the normalizer
NormHeaderGood ==
    <<<<"a", "n", "o">>, <<"s", "e", "t", "o", "r">>, <<"d", "e", "m", "a", "n", "d", "a">>,
      <<"s", "a", "l", "a", "r", "i", "o", "_", "m", "e", "d", "i", "a", "n", "a">>>>

NormHeaderNoDemand ==
    <<<<"a", "n", "o">>, <<"s", "e", "t", "o", "r">>,
      <<"s", "a", "l", "a", "r", "i", "o", "_", "m", "e", "d", "i", "a", "n", "a">>>>

NormHeaderNoSalary ==
    <<<<"a", "n", "o">>, <<"s", "e", "t", "o", "r">>, <<"D", "e", "m", "a", "n", "d", "a">>>>

NormHeaderNoSector ==
    <<<<"a", "n", "o">>, <<"d", "e", "m", "a", "n", "d", "a">>,
      <<"s", "a", "l", "a", "r", "i", "o", "_", "m", "e", "d", "i", "o">>>>

NormHeaderNoYear ==
    <<<<"S", "e", "t", "o", "r">>, <<"d", "e", "m", "a", "n", "d", "a">>,
      <<"s", "a", "l", "a", "r", "i", "o", "_", "m", "e", "d", "i", "a", "n", "a">>>>

NormHeaders ==
    {NormHeaderGood, NormHeaderNoDemand, NormHeaderNoSalary, NormHeaderNoSector, NormHeaderNoYear}

NormRows ==
    { <<<<"1", "9">>, <<"A">>, <<"2">>, <<"1", "0">>>>,
      <<<<"1", "9">>, <<"A">>, <<"4">>, <<"1", ",", "5">>>>,
      <<<<"1", "9">>, <<"A">>, <<"8">>, <<"-", "3">>>>,
      <<<<"2", "0">>, <<"A">>, <<"8">>, <<"3", "0">>>>,
      <<<<"1", "9">>, <<" ", "B">>, <<"5">>, <<"x">>>>,
      <<<<"1", "9">>, <<>>, <<"5">>, <<"5">>>>,
      <<<<"1", "9">>, <<"A">>, <<"4">>>>,
      <<<<"2", "0">>, <<"A">>, <<"8">>, <<"3", "0">>, <<"z">>>> }

InitNorm ==
    /\ pc = "start"
    /\ stage = "norm"
    /\ fieldnames \in NormHeaders
    /\ rows \in Files(NormRows, MaxRows)
    /\ fieldnames # NormHeaderGood => Len(rows) <= 1
    /\ NormIdle
    /\ badAt = 0 /\ enc = "closed" /\ processed = 0 /\ cols = EmptyMap /\ out = <<>>
    /\ MergeIdle /\ EmpIdle /\ MedIdle /\ CalcIdle /\ ParseIdle

\* process up to the loop of pass 1: open the file, resolve the columns, exit
\* with status 1 when demanda, salario or setor is missing.
NormOpen ==
    /\ pc = "start"
    /\ enc' = open_text(badAt # 0)
    /\ cols' = NormResolve(fieldnames)
    /\ pc' = IF \E c \in {"demanda", "salario", "setor"} : cols'[c] = None
             THEN "SystemExit" ELSE "pass1"
    /\ UNCHANGED <<stage, fieldnames, rows, badAt, processed, out>>
    /\ UNCHANGED <<normVars, mergeVars, empVars, medVars, calcVars, parseVars>>

\* One iteration of pass 1: a row with a sector widens its sector's ranges.
NormPass1Row ==
    /\ pc = "pass1"
    /\ processed < Len(rows)
    /\ processed' = processed + 1
    /\ LET row == RowDict(fieldnames, rows[processed + 1])
           setor == GetOrEmpty(row, cols["setor"])
           key == RangeKey(cols, row)
           dem == parse_decimal_norm(MapGet(row, cols["demanda"], None))
           sal == parse_decimal_norm(MapGet(row, cols["salario"], None))
       IN  IF setor = <<>> THEN UNCHANGED normVars
           ELSE /\ min_dem_by_sector' = UpdateMin(min_dem_by_sector, key, dem)
                /\ max_dem_by_sector' = UpdateMax(max_dem_by_sector, key, dem)
                /\ min_sal_by_sector' = UpdateMin(min_sal_by_sector, key, sal)
                /\ max_sal_by_sector' = UpdateMax(max_sal_by_sector, key, sal)
    /\ UNCHANGED <<pc, stage, fieldnames, rows, badAt, enc, cols, out>>
    /\ UNCHANGED <<mergeVars, empVars, medVars, calcVars, parseVars>>

\* Pass 2 opened without waiting for the end of pass 1.
NormPass2Open_early ==
    /\ pc = "pass1"
    /\ enc' = open_text(badAt # 0)
    /\ processed' = 0
    /\ out' = <<>>
    /\ pc' = "pass2"
    /\ UNCHANGED <<stage, fieldnames, rows, badAt, cols>>
    /\ UNCHANGED <<normVars, mergeVars, empVars, medVars, calcVars, parseVars>>

\* Pass 1 is over: the file is reopened, the output is created and gets its
\* header, the row counter starts again.
NormPass2Open ==
    /\ pc = "pass1"
    /\ processed = Len(rows)
    /\ enc' = open_text(badAt # 0)
    /\ processed' = 0
    /\ out' = <<>>
    /\ pc' = "pass2"
    /\ UNCHANGED <<stage, fieldnames, rows, badAt, cols>>
    /\ UNCHANGED <<normVars, mergeVars, empVars, medVars, calcVars, parseVars>>

\* One iteration of pass 2: the row is written with its two normalized values,
\* or the writer raises ValueError.
NormPass2Row ==
    /\ pc = "pass2"
    /\ processed < Len(rows)
    /\ processed' = processed + 1
    /\ LET row == RowDict(fieldnames, rows[processed + 1])
           line == DictWriterRow(fieldnames \o NormNewColumns,
                      NormOutDict(cols, row, min_dem_by_sector, max_dem_by_sector,
                                  min_sal_by_sector, max_sal_by_sector))
       IN  IF line = ValueError
           THEN pc' = "ValueError" /\ UNCHANGED out
           ELSE pc' = pc /\ out' = Append(out, line)
    /\ UNCHANGED <<stage, fieldnames, rows, badAt, enc, cols>>
    /\ UNCHANGED <<normVars, mergeVars, empVars, medVars, calcVars, parseVars>>

NormDone ==
    /\ pc = "pass2"
    /\ processed = Len(rows)
    /\ enc' = "closed"
    /\ pc' = "done"
    /\ UNCHANGED <<stage, fieldnames, rows, badAt, processed, cols, out>>
    /\ UNCHANGED <<normVars, mergeVars, empVars, medVars, calcVars, parseVars>>

NextNorm == NormOpen \/ NormPass1Row \/ NormPass2Open \/ NormPass2Row \/ NormDone

SpecNorm == InitNorm /\ [][NextNorm]_vars

\* ------------------------------------------------------------------ claims: normalizer
\* The group of input row i: its trimmed sector, with its trimmed year when
\* byYear.
NormGroup(i, byYear) ==
    LET row == RowDict(fieldnames, rows[i])
    IN  <<IF byYear THEN GetOrEmpty(row, cols["ano"]) ELSE <<>>, GetOrEmpty(row, cols["setor"])>>

\* The parsed value of input row i in a target column ("demanda" or "salario").
NormValue(i, target) ==
    parse_decimal_norm(MapGet(RowDict(fieldnames, rows[i]), cols[target], None))

\* The least and the greatest of a non-empty set of values.
MinOf(S) == CHOOSE m \in S : \A x \in S : ~RLt(x, m)

MaxOf(S) == CHOOSE m \in S : \A x \in S : ~RLt(m, x)

\* The values of a target column over all rows of the file in the group of row i.
GroupValues(i, target, byYear) ==
    {NormValue(j, target) : j \in {k \in 1..Len(rows) : NormGroup(k, byYear) = NormGroup(i, byYear)}}

\* (value - min) / (max - min) over the group of row i, 0.0 when max = min, as
\* the text with six decimals.
ExpectedNormalized(i, target, byYear) ==
    LET S == GroupValues(i, target, byYear)
        lo == MinOf(S)
        hi == MaxOf(S)
    IN  Fmt6(IF hi = lo THEN Zero ELSE RDiv(RSub(NormValue(i, target), lo), RSub(hi, lo)))

\* The text of a number with six decimals, for the examples.
Six(n, d) == Fmt6(Rat(n, d))

\* C8 as stated: every written row with a sector has (value - min) / (max - min)
\* in each normalized column, min and max taken over the rows of the same (year,
\* sector), 0.0 when max = min; a group with the values 2, 4, 8 gets 0.0,
\* 0.2857.., 1.0, and rows of another year of the sector have no influence.
C8_RangePerYearAndSector ==
    pc \in {"pass2", "done", "ValueError"} =>
        \A i \in 1..Len(out) :
            LET n == Len(fieldnames)
            IN  NormGroup(i, TRUE)[2] # <<>> =>
                  /\ out[i][n + 1] = ExpectedNormalized(i, "demanda", TRUE)
                  /\ out[i][n + 2] = ExpectedNormalized(i, "salario", TRUE)
                  /\ (GroupValues(i, "demanda", TRUE) = {FromInt(2), FromInt(4), FromInt(8)}
                      /\ NormValue(i, "demanda") = FromInt(4))
                        => out[i][n + 1] = <<"0", ".", "2", "8", "5", "7", "1", "4">>

\* C8 amended: the ranges are per sector, not per (year, sector). Every written
\* row with a non-empty trimmed sector has (value - min) / (max - min) in each
\* normalized column, min and max taken over all rows of the file with the same
\* trimmed sector, whatever their year, and 0.0 when max = min; a row without a
\* sector has 0.0 in both. A sector with the values 2, 4, 8 gets 0.0, 0.333333,
\* 1.0.
C8_RangePerSector ==
    pc \in {"pass2", "done", "ValueError"} =>
        \A i \in 1..Len(out) :
            LET n == Len(fieldnames)
            IN  IF NormGroup(i, FALSE)[2] = <<>>
                THEN out[i][n + 1] = Six(0, 1) /\ out[i][n + 2] = Six(0, 1)
                ELSE /\ out[i][n + 1] = ExpectedNormalized(i, "demanda", FALSE)
                     /\ out[i][n + 2] = ExpectedNormalized(i, "salario", FALSE)
                     /\ GroupValues(i, "demanda", FALSE) = {FromInt(2), FromInt(4), FromInt(8)}
                           => out[i][n + 1] =
                                 (CASE NormValue(i, "demanda") = FromInt(2) -> Six(0, 1)
                                    [] NormValue(i, "demanda") = FromInt(4) ->
                                          <<"0", ".", "3", "3", "3", "3", "3", "3">>
                                    [] NormValue(i, "demanda") = FromInt(8) ->
                                          <<"1", ".", "0", "0", "0", "0", "0", "0">>)

\* C8 witness: a finished run over three rows of sector A, two of year 19 with
\* demanda 2 and 4 and one of year 20 with demanda 8, whose second row got
\* 0.333333: the row of year 20 set the maximum.
C8_Witness ==
    /\ pc = "done"
    /\ Len(out) = 3
    /\ NormGroup(1, TRUE) = NormGroup(2, TRUE)
    /\ NormGroup(3, TRUE) # NormGroup(1, TRUE)
    /\ NormGroup(3, FALSE) = NormGroup(1, FALSE)
    /\ <<NormValue(1, "demanda"), NormValue(2, "demanda"), NormValue(3, "demanda")>>
          = <<FromInt(2), FromInt(4), FromInt(8)>>
    /\ out[2][Len(fieldnames) + 1] = <<"0", ".", "3", "3", "3", "3", "3", "3">>

\* C9: pass 2 writes one output row per input row read, in input order, rows
\* without a sector and rows shorter or longer than the header included; each
\* keeps the original columns with their values in their positions and has
\* exactly the two normalized columns after them.
C9_Pass2KeepsEveryRow ==
    pc \in {"pass2", "done", "ValueError"} =>
        /\ Len(out) = processed
        /\ pc \in {"done", "ValueError"} => Len(out) = Len(rows)
        /\ \A i \in 1..Len(out) :
              /\ Len(out[i]) = Len(fieldnames) + 2
              /\ \A j \in 1..Len(fieldnames) :
                    out[i][j] = (IF j <= Len(rows[i]) THEN rows[i][j] ELSE <<>>)

\* ------------------------------------------------------------------ the aggregators and the normalizer, one of them per run
InitResolve == InitEmp \/ InitMedian \/ InitNorm

NextResolve ==
    \/ stage = "emp" /\ NextEmp
    \/ stage = "median" /\ NextMedian
    \/ stage = "norm" /\ NextNorm

SpecResolve == InitResolve /\ [][NextResolve]_vars

\* ------------------------------------------------------------------ claims: column resolution
\* The normalized header names a stage accepts for a role.
AcceptedNames(st, role) ==
    CASE role = "ano" -> {<<"a", "n", "o">>}
      [] role = "setor" -> {<<"s", "e", "t", "o", "r">>}
      [] role = "demanda" -> {<<"d", "e", "m", "a", "n", "d", "a">>}
      [] role = "target" /\ st = "emp" ->
           {<<"n", "u'", "m", "e", "r", "o", " ", "d", "e", " ", "e", "m", "p", "r", "e", "g", "o", "s">>,
            <<"n", "u", "m", "e", "r", "o", " ", "d", "e", " ", "e", "m", "p", "r", "e", "g", "o", "s">>,
            <<"n", "u", "m", "e", "r", "o", "_", "d", "e", "_", "e", "m", "p", "r", "e", "g", "o", "s">>,
            <<"n", "u", "m", "_", "e", "m", "p", "r", "e", "g", "o", "s">>}
      [] role = "target" /\ st = "median" ->
           {<<"s", "a", "l", "a'", "r", "i", "o", " ", "m", "e'", "d", "i", "o">>,
            <<"s", "a", "l", "a", "r", "i", "o", " ", "m", "e", "d", "i", "o">>,
            <<"s", "a", "l", "a", "r", "i", "o", "_", "m", "e", "d", "i", "o">>,
            <<"s", "a", "l", "a'", "r", "i", "o", " ", "m", "e", "d", "i", "o">>}
      [] role = "target" /\ st = "norm" ->
           {<<"s", "a", "l", "a", "r", "i", "o", "_", "m", "e", "d", "i", "a", "n", "a">>,
            <<"s", "a", "l", "a", "r", "i", "o", "_", "m", "e", "d", "i", "o">>}

\* No name of the header is one the running stage accepts for the role.
Unresolved(role) ==
    \A i \in DOMAIN fieldnames : normalize_header(fieldnames[i]) \notin AcceptedNames(stage, role)

\* The group-key and target columns of the running stage.
StageRoles == IF stage = "norm" THEN {"ano", "setor", "demanda", "target"}
              ELSE {"ano", "setor", "target"}

\* The run stopped with exit status 1 before its row loop, or has not got to its
\* column check yet: no row read, nothing written.
AbortedBeforeRows == pc \in {"start", "open", "SystemExit"} /\ processed = 0 /\ out = <<>>

\* C11 as stated: in the sum-mode aggregator, the median-mode aggregator and the
\* normalizer a header without the year, the sector or a target column stops the
\* run with a non-zero exit status before any row is processed and before the
\* output is opened or written.
C11_UnresolvedColumnAborts ==
    (\E role \in StageRoles : Unresolved(role)) => AbortedBeforeRows

\* C11 amended: the normalizer does not need the year column. Both aggregators
\* abort as stated when the year, the sector or the target column is
\* unresolved; the normalizer aborts as stated when the sector, demanda or the
\* salary column is unresolved, and runs to its end on a header without a year
\* column. No run exits this way with all its required columns resolved.
C11_RequiredColumnsAbort ==
    LET required == IF stage = "norm" THEN StageRoles \ {"ano"} ELSE StageRoles
        missing == \E role \in required : Unresolved(role)
    IN  /\ missing => AbortedBeforeRows
        /\ pc = "SystemExit" => missing

\* C11 witness: the normalizer exited with status 1 on a file with a data row
\* whose header has no demanda column; nothing was read or written.
C11_Witness ==
    /\ stage = "norm" /\ pc = "SystemExit"
    /\ Unresolved("demanda")
    /\ rows # <<>> /\ processed = 0 /\ out = <<>>

\* ------------------------------------------------------------------ claims: summary tables
\* a before b in the order of text: at the first position where they differ a
\* has the lower code point, or a ends there and b goes on.
TextLess(a, b) ==
    \E k \in 1..(Len(a) + 1) :
        /\ \A j \in 1..(k - 1) : j <= Len(b) /\ a[j] = b[j]
        /\ \/ k = Len(a) + 1 /\ Len(b) >= k
           \/ k <= Len(a) /\ k <= Len(b) /\ CharCode(a[k]) < CharCode(b[k])

\* The result map of the running aggregator.
ResultMap == IF stage = "emp" THEN results ELSE medians

\* C12: the table written by the employability stage and by the median stage has
\* exactly one data row per key of the result map, and its rows are in strictly
\* ascending order of (year, sector) compared as text, whatever the order of the
\* input rows.
C12_OneRowPerKeySorted ==
    (stage \in {"emp", "median"} /\ pc = "done") =>
        /\ Len(out) = Cardinality(DOMAIN ResultMap)
        /\ {<<out[i][1], out[i][2]>> : i \in DOMAIN out} = DOMAIN ResultMap
        /\ \A i, j \in DOMAIN out :
              i < j => \/ TextLess(out[i][1], out[j][1])
                       \/ out[i][1] = out[j][1] /\ TextLess(out[i][2], out[j][2])

\* C12 witness: the employability stage wrote three groups that it had met in
\* descending order.
C12_Witness ==
    /\ stage = "emp" /\ pc = "done"
    /\ Len(out) = 3
    /\ \A i \in 1..3 : <<out[i][1], out[i][2]>> = count_keys[4 - i]

\* ------------------------------------------------------------------ load_cnaes_unicos (merge_rais_cnaes.py)
\* The two columns load_cnaes_unicos resolves from the header of the reference
\* file.
LoadResolve(names) ==
    [c \in {"id", "setor"} |->
        CASE c = "id" ->
               choose_column(names, <<<<"I", "D", " ", "C", "N", "A", "E">>,
                                      <<"i", "d", "_", "c", "n", "a", "e">>,
                                      <<"i", "d", " ", "c", "n", "a", "e">>>>)
          [] c = "setor" ->
               choose_column(names, <<<<"S", "E", "T", "O", "R">>, <<"s", "e", "t", "o", "r">>>>)]

\* What one iteration of the loop of load_cnaes_unicos does with a row: raise,
\* skip it (continue), or set mapping[key].
LoadClassify(c, row) ==
    LET key == GetStripped(row, c["id"])
        setor == GetStripped(row, c["setor"])
    IN  IF key = AttributeError THEN [kind |-> "raise", key |-> None, val |-> None]
        ELSE IF key = <<>> THEN [kind |-> "skip", key |-> None, val |-> None]
        ELSE IF setor = AttributeError THEN [kind |-> "raise", key |-> None, val |-> None]
        ELSE [kind |-> "set", key |-> key, val |-> setor]

\* --- inputs of load_cnaes_unicos
LoadHeaderGood == <<<<"I", "D", " ", "C", "N", "A", "E">>, <<"S", "E", "T", "O", "R">>>>

LoadHeaderNoSector == <<<<"i", "d", "_", "c", "n", "a", "e">>, <<"C", "N", "A", "E">>>>

LoadRows ==
    { <<<<"1">>, <<" ", "I", "n", "d", " ">>>>,
      <<<<" ", "1", " ">>, <<"C", "o", "m">>>>,
      <<<<"1">>, <<>>>>,
      <<<<"2">>, <<"A", "g", "r", "o">>, <<"z">>>>,
      <<<<>>, <<"X">>>>,
      <<<<" ", " ">>, <<"Y">>>>,
      <<<<"5">>>> }

InitLoad ==
    /\ pc = "start"
    /\ stage = "load"
    /\ fieldnames \in {LoadHeaderGood, LoadHeaderNoSector}
    /\ rows \in Files(LoadRows, MaxRows)
    /\ fieldnames # LoadHeaderGood => Len(rows) <= 1
    /\ badAt = 0 /\ enc = "closed" /\ processed = 0 /\ cols = EmptyMap /\ out = <<>>
    /\ MergeIdle /\ EmpIdle /\ MedIdle /\ NormIdle /\ CalcIdle /\ ParseIdle

\* load_cnaes_unicos up to its loop: open the file, resolve the two columns,
\* ValueError when one of them is missing.
LoadOpen ==
    /\ pc = "start"
    /\ enc' = open_text(badAt # 0)
    /\ cols' = LoadResolve(fieldnames)
    /\ pc' = IF \E c \in DOMAIN cols' : cols'[c] = None THEN "ValueError" ELSE "load"
    /\ UNCHANGED <<stage, fieldnames, rows, badAt, processed, out>>
    /\ UNCHANGED <<mergeVars, empVars, medVars, normVars, calcVars, parseVars>>

\* One iteration of the loop of load_cnaes_unicos.
LoadRow ==
    /\ pc = "load"
    /\ processed < Len(rows)
    /\ LET r == LoadClassify(cols, RowDict(fieldnames, rows[processed + 1]))
       IN  /\ processed' = processed + 1
           /\ pc' = IF r.kind = "raise" THEN "AttributeError" ELSE pc
           /\ cnaes_map' = IF r.kind = "set" THEN MapPut(cnaes_map, r.key, r.val) ELSE cnaes_map
    /\ UNCHANGED <<stage, fieldnames, rows, badAt, enc, cols, out, chosen, written>>
    /\ UNCHANGED <<empVars, medVars, normVars, calcVars, parseVars>>

\* load_cnaes_unicos returns the mapping.
LoadDone ==
    /\ pc = "load"
    /\ processed = Len(rows)
    /\ enc' = "closed"
    /\ pc' = "done"
    /\ UNCHANGED <<stage, fieldnames, rows, badAt, processed, cols, out>>
    /\ UNCHANGED <<mergeVars, empVars, medVars, normVars, calcVars, parseVars>>

NextLoad == LoadOpen \/ LoadRow \/ LoadDone

SpecLoad == InitLoad /\ [][NextLoad]_vars

\* ------------------------------------------------------------------ claims: load_cnaes_unicos
\* The trimmed key of reference row i; "" when the row has no key field.
RefKey(i) ==
    LET v == MapGet(RowDict(fieldnames, rows[i]), cols["id"], <<>>)
    IN  IF v = None THEN <<>> ELSE Strip(v)

\* The trimmed sector of reference row i; None when the row has no sector field.
RefSector(i) ==
    LET v == MapGet(RowDict(fieldnames, rows[i]), cols["setor"], <<>>)
    IN  IF v = None THEN None ELSE Strip(v)

\* C13: after any sequence of reference rows has been streamed the map holds, for
\* every non-empty trimmed key that occurred, the trimmed sector of the last row
\* carrying that key, and nothing else: a row with an empty trimmed key adds no
\* entry and the empty key is never in the map.
C13_LastOccurrenceWins ==
    pc \in {"load", "done", "AttributeError"} =>
        LET keyed == {i \in 1..processed : RefKey(i) # <<>>}
        IN  /\ DOMAIN cnaes_map = {RefKey(i) : i \in keyed}
            /\ \A i \in keyed :
                  (\A j \in keyed : RefKey(j) = RefKey(i) => j <= i)
                      => cnaes_map[RefKey(i)] = RefSector(i)

\* ------------------------------------------------------------------ parse_decimal on drawn inputs
\* The characters the drawn texts are made of.
ParseAlphabet == {"1", "2", ".", ",", "\"", " ", "x", "-"}

\* All texts of at most n characters of the alphabet.
RECURSIVE Texts(_)
Texts(n) ==
    IF n = 0 THEN {<<>>}
    ELSE LET shorter == Texts(n - 1)
         IN  shorter \cup {Append(t, c) : t \in {u \in shorter : Len(u) = n - 1}, c \in ParseAlphabet}

ParseExamples ==
    { <<"1", "2", "3", "4", ".", "5", "6">>,
      <<"1", "2", "3", "4", ",", "5", "6">>,
      <<"1", ".", "2", "3", "4", ",", "5", "6">>,
      <<"1", ",", "2", "3", "4", ".", "5", "6">>,
      <<"a", "b", "c">>,
      <<" ", "\"", "1", ".", "2", "3", "4", ",", "5", "\"", " ">> }

ParseInputs == Texts(MaxLen) \cup ParseExamples \cup {None}

InitParse ==
    /\ pc = "parse"
    /\ stage = "parse"
    /\ input_value \in ParseInputs
    /\ parsed = <<>>
    /\ IoIdle /\ MergeIdle /\ EmpIdle /\ MedIdle /\ NormIdle /\ CalcIdle

\* parse_decimal(value) of the median aggregator and of the normalizer.
ParseApply ==
    /\ pc = "parse"
    /\ parsed' = <<parse_decimal(input_value), parse_decimal_norm(input_value)>>
    /\ pc' = "parse_done"
    /\ UNCHANGED <<ioVars, mergeVars, empVars, medVars, normVars, calcVars, input_value>>

NextParse == ParseApply

SpecParse == InitParse /\ [][NextParse]_vars

\* ------------------------------------------------------------------ claims: parse_decimal
\* The text with surrounding whitespace and every quote taken off.
Cleaned(v) == Replace(Strip(v), "\"", <<>>)

\* The first reading of the text that float() accepts, in the order: as it is,
\* with "," for ".", with "." dropped and "," for "."; None when none does.
FirstReading(s) ==
    LET readings == <<ParseFloat(s),
                      ParseFloat(Replace(s, ",", <<".">>)),
                      ParseFloat(Replace(Replace(s, ".", <<>>), ",", <<".">>))>>
        good == {i \in 1..3 : readings[i] # ValueError}
    IN  IF good = {} THEN None ELSE readings[CHOOSE i \in good : \A j \in good : i <= j]

\* C14: both versions of parse_decimal return a number for every input, never an
\* exception; they return 0.0 for None, for empty or blank text and for text no
\* reading accepts, and otherwise the first accepted reading, so that the two
\* versions agree on every input; "1234.56", "1234,56" and "1.234,56" give
\* 1234.56 and "abc" gives 0.0.
C14_ParseDecimalVersionsAgree ==
    pc = "parse_done" =>
        LET v == input_value
            blank == v = None \/ Strip(v) = <<>>
            expected == IF blank \/ FirstReading(Cleaned(v)) = None THEN Zero
                        ELSE FirstReading(Cleaned(v))
        IN  /\ parsed[1] = parsed[2]
            /\ parsed[1] \notin {ValueError, AttributeError}
            /\ parsed[1] = expected
            /\ v \in { <<"1", "2", "3", "4", ".", "5", "6">>,
                       <<"1", "2", "3", "4", ",", "5", "6">>,
                       <<"1", ".", "2", "3", "4", ",", "5", "6">> }
                  => parsed[1] = <<30864, 25>>
            /\ v = <<"a", "b", "c">> => parsed[1] = Zero

\* C14 witness: both versions were applied to "1.234,56", which only the last
\* reading accepts, and gave 1234.56.
C14_Witness ==
    /\ pc = "parse_done"
    /\ input_value = <<"1", ".", "2", "3", "4", ",", "5", "6">>
    /\ parsed = <<<<30864, 25>>, <<30864, 25>>>>

\* ------------------------------------------------------------------ the join engine and the two aggregators, one of them per run
InitStreams == InitMerge \/ InitEmp \/ InitMedian

NextStreams ==
    \/ stage = "merge" /\ Next
    \/ stage = "emp" /\ NextEmp
    \/ stage = "median" /\ NextMedian

SpecStreams == InitStreams /\ [][NextStreams]_vars

\* ------------------------------------------------------------------ claims: row-level failures
\* C15: in the join engine and in both aggregators no row makes an exception
\* escape the row loop, whatever the rows hold (an empty group key, an empty or
\* unparsable number, fewer fields than the header): every row after a faulty one
\* is still read, and a run whose columns were resolved ends with every row read
\* and its output written.
C15_RowFailuresNeverInterrupt ==
    /\ pc # "AttributeError"
    /\ pc = "done" => processed = Len(rows)

\* ------------------------------------------------------------------ claims: median buckets
\* The group of input row i of the median stage: its trimmed year and sector;
\* None when one of them is missing or empty.
MedGroupOf(i) ==
    LET ano == RawOf(i, cols["ano"])
        setor == RawOf(i, cols["setor"])
    IN  IF None \in {ano, setor} THEN None
        ELSE IF Strip(ano) = <<>> \/ Strip(setor) = <<>> THEN None
        ELSE <<Strip(ano), Strip(setor)>>

\* The salary field of input row i holds text that one of the readings accepts.
SalaryParsable(i) ==
    LET v == RawOf(i, cols["salario"])
    IN  /\ v # None
        /\ Strip(v) # <<>>
        /\ FirstReading(Cleaned(v)) # None

\* The samples the rows read so far should have put into the bucket of a group:
\* one per row of the group with a parsable salary, zeros only when they are
\* included.
ParsableSamples(key) ==
    {i \in 1..processed :
        /\ MedGroupOf(i) = key
        /\ SalaryParsable(i)
        /\ (include_zeros \/ FirstReading(Cleaned(RawOf(i, cols["salario"]))) # Zero)}

\* C16: for both settings of include_zeros a bucket holds only samples parsed
\* from a parsable salary field; a row whose salary is empty or unparsable adds
\* no sample, and with zeros included only parsable zero values are added as
\* 0.0.
C16_OnlyParsableSamples ==
    pc \in {"agg", "write", "done", "AttributeError"} =>
        \A key \in DOMAIN bins : Len(bins[key]) = Cardinality(ParsableSamples(key))

\* The groups that occur in the input of the median stage: the (year, sector) of
\* the rows that have both non-empty.
MedGroupsOfInput == {MedGroupOf(i) : i \in 1..Len(rows)} \ {None}

\* C17: the output of the median stage has one row for every distinct (year,
\* sector) that occurs in an input row with both non-empty; a group with no
\* retained sample is written with the median 0.0 instead of being left out.
C17_EveryGroupWritten ==
    (pc = "done") =>
        /\ {<<out[i][1], out[i][2]>> : i \in DOMAIN out} = MedGroupsOfInput
        /\ Len(out) = Cardinality(MedGroupsOfInput)
        /\ \A i \in DOMAIN out :
              <<out[i][1], out[i][2]>> \notin DOMAIN bins => out[i][3] = Fmt6(Zero)

\* ------------------------------------------------------------------ claims: order of the normalizer's passes
\* The trimmed sectors of the file, the empty one left out.
SectorsOfInput == {NormGroup(i, FALSE)[2] : i \in 1..Len(rows)} \ {<<>>}

\* The values of a target column over all rows of a sector.
SectorValues(s, target) ==
    {NormValue(j, target) : j \in {k \in 1..Len(rows) : NormGroup(k, FALSE)[2] = s}}

\* The four tables hold the minimum and the maximum of every sector of the whole
\* file.
TablesComplete ==
    /\ \A t \in {min_dem_by_sector, max_dem_by_sector, min_sal_by_sector, max_sal_by_sector} :
          DOMAIN t = SectorsOfInput
    /\ \A s \in SectorsOfInput :
          /\ min_dem_by_sector[s] = MinOf(SectorValues(s, "demanda"))
          /\ max_dem_by_sector[s] = MaxOf(SectorValues(s, "demanda"))
          /\ min_sal_by_sector[s] = MinOf(SectorValues(s, "salario"))
          /\ max_sal_by_sector[s] = MaxOf(SectorValues(s, "salario"))

\* C18: the passes of the normalizer are strictly ordered. Nothing is written
\* before pass 1 has read every row; from the start of pass 2 on the tables are
\* those of the whole file; pass 2 starts again at the first data row and writes
\* the rows in file order; no step of pass 2 changes a table.
C18_PassesStrictlyOrdered ==
    /\ [](pc \in {"start", "pass1", "SystemExit"} => out = <<>>)
    /\ [](pc \in {"pass2", "done", "ValueError"} => TablesComplete)
    /\ [](pc = "pass2" => \A i \in 1..Len(out) : i <= processed /\ out[i][1] = rows[i][1])
    /\ [][(pc = "pass1" /\ pc' = "pass2") => (processed = Len(rows) /\ processed' = 0)]_vars
    /\ [][pc = "pass2" => UNCHANGED normVars]_vars

\* C18 witness: pass 2 has written the first of several rows from tables that
\* pass 1 filled.
C18_Witness ==
    /\ pc = "pass2"
    /\ Len(rows) >= 2 /\ processed = 1 /\ Len(out) = 1
    /\ DOMAIN min_dem_by_sector # {}

\* ------------------------------------------------------------------ claims: range of the normalized values
\* A written normalized value read back as a number lies in [0, 1].
InUnitInterval(text) ==
    LET q == ParseFloat(text)
    IN  q # ValueError /\ ~RLt(q, Zero) /\ ~RLt(FromInt(1), q)

InitRates == InitCalc \/ InitEmp

NextRates ==
    \/ stage = "calc" /\ NextCalc
    \/ stage = "emp" /\ NextEmp

SpecRates == InitRates /\ [][NextRates]_vars

\* ------------------------------------------------------------------ claims: employability does not depend on the count
\* (100 - r) / 100
EmployedShare(r) == RDiv(RSub(FromInt(100), r), FromInt(100))

\* C20: for every count E # 0 and rate r < 100 calc_empregabilidade(E, r) is
\* (100 - r) / 100, whatever E; so for 0 <= r < 100 and E > 0 it lies in (0, 1],
\* all sectors of a year get the same employability, and E = 0 gives 0.0.
C20_EmployabilityIndependentOfCount ==
    /\ (stage = "calc" /\ pc = "calc_done" /\ RLt(taxa, FromInt(100))) =>
          /\ empregados # Zero => empreg = EmployedShare(taxa)
          /\ empregados = Zero => empreg = Zero
          /\ (~RLt(taxa, Zero) /\ RLt(Zero, empregados)) =>
                (RLt(Zero, empreg) /\ ~RLt(FromInt(1), empreg))
    /\ (stage = "emp" /\ pc \in {"derive", "done"}) =>
          /\ \A k \in DOMAIN results :
                RLt(taxas[k[1]], FromInt(100)) =>
                    results[k] = (IF counts[k] = Zero THEN Zero ELSE EmployedShare(taxas[k[1]]))
          /\ \A a, b \in DOMAIN results :
                (a[1] = b[1] /\ counts[a] # Zero /\ counts[b] # Zero) => results[a] = results[b]

\* C20 witness: a finished run whose two sectors of one year have different
\* counts and the same employability, which is not 0.
C20_Witness ==
    /\ stage = "emp" /\ pc = "done"
    /\ \E a, b \in DOMAIN results :
          /\ a[1] = b[1] /\ a[2] # b[2]
          /\ counts[a] # counts[b]
          /\ results[a] = results[b] /\ results[a] # Zero

====
